---- MODULE Spec2Model ----
(***************************************************************************)
(* Formula expression engine (simple-calculator): TokenStream / Lexer,     *)
(* Parser, the Expr nodes with their evaluate methods, the value classes,  *)
(* the function registry and nextX.                                        *)
(*                                                                         *)
(* Strings are sequences of one-character strings.  JavaScript numbers are *)
(* modelled as signed rationals with signed zero, NaN and the infinities;  *)
(* a result that leaves the exactly representable window of the model (or  *)
(* is irrational) is kept as an uninterpreted term over its operands, so   *)
(* that two evaluations are equal only if they combine equal operands the  *)
(* same way.  Rounding of doubles is not modelled.                         *)
(***************************************************************************)
EXTENDS Integers, Sequences, FiniteSets, TLC

VARIABLES pc, text, tree, parser, expr, ctx, value

vars == <<pc, text, tree, parser, expr, ctx, value>>

(***************************************************************************)
(* Bounds of the model                                                     *)
(***************************************************************************)
\* largest numerator / denominator kept exactly
ExactLimit == 30000
\* most digits of a numeric literal converted exactly
MaxLitDigits == 4
\* longest column name given to nextX
MaxColLen == 2
\* most binary operators in a generated arithmetic expression
MaxOps == 2
\* largest row number of a range endpoint
MaxRow == 10

(***************************************************************************)
(* Characters and strings                                                  *)
(***************************************************************************)
alphabet ==
  << "A", "B", "C", "D", "E", "F", "G", "H", "I", "J", "K", "L", "M",
     "N", "O", "P", "Q", "R", "S", "T", "U", "V", "W", "X", "Y", "Z" >>

Range(sq) == { sq[i] : i \in DOMAIN sq }

Upper == Range(alphabet)

Lower ==
  { "a", "b", "c", "d", "e", "f", "g", "h", "i", "j", "k", "l", "m",
    "n", "o", "p", "q", "r", "s", "t", "u", "v", "w", "x", "y", "z" }

DigitSeq == << "0", "1", "2", "3", "4", "5", "6", "7", "8", "9" >>

Digits == Range(DigitSeq)

\* the characters /\s/ matches, as far as the model's texts use them
Spaces == { " ", "\t", "\n" }

IndexOf(sq, c) == CHOOSE i \in DOMAIN sq : sq[i] = c

DigitVal(c) == IndexOf(DigitSeq, c) - 1

\* UTF-16 code unit, for the characters strings are compared on
CharCode(c) ==
  IF c \in Digits THEN 47 + IndexOf(DigitSeq, c)
  ELSE IF c \in Upper THEN 64 + IndexOf(alphabet, c)
  ELSE IF c = "_" THEN 95
  ELSE 200

\* JavaScript's a < b on strings: by code units, a proper prefix is smaller
RECURSIVE StrLT(_, _)
StrLT(x, y) ==
  IF y = << >> THEN FALSE
  ELSE IF x = << >> THEN TRUE
  ELSE IF Head(x) = Head(y) THEN StrLT(Tail(x), Tail(y))
  ELSE CharCode(Head(x)) < CharCode(Head(y))

StrGT(x, y) == StrLT(y, x)

StrLE(x, y) == ~ StrLT(y, x)

\* String.prototype.slice(from, to) with 0-based, clamped indices
Slice(str, from, to) ==
  SubSeq(str, from + 1, IF to < Len(str) THEN to ELSE Len(str))

\* a thrown Error, and a returned string
Throw(msg) == [type |-> "throw", message |-> msg]

IsThrow(v) == v.type = "throw"

Str(chars) == [type |-> "str", chars |-> chars]

RECURSIVE Flatten(_)
Flatten(sqs) == IF sqs = << >> THEN << >> ELSE Head(sqs) \o Flatten(Tail(sqs))

(***************************************************************************)
(* JavaScript numbers                                                      *)
(***************************************************************************)
Fin(sg, n, d) == [k |-> "fin", s |-> sg, n |-> n, d |-> d]

NaN == [k |-> "nan"]

Inf(sg) == [k |-> "inf", s |-> sg]

\* a value outside the exact window: the operation applied to its operands
Sym(op, l, r) == [k |-> "sym", op |-> op, l |-> l, r |-> r]

Overflow == [k |-> "ovf"]

IntNum(i) == IF i < 0 THEN Fin(-1, -i, 1) ELSE Fin(1, i, 1)

Zero == Fin(1, 0, 1)

One == Fin(1, 1, 1)

RECURSIVE GCD(_, _)
GCD(m, n) == IF n = 0 THEN m ELSE GCD(n, m % n)

\* the rational sg * n / d in lowest terms, or Overflow outside the window
Mk(sg, n, d) ==
  LET g == GCD(n, d)
      nn == n \div g
      dd == d \div g
  IN IF nn > ExactLimit \/ dd > ExactLimit THEN Overflow ELSE Fin(sg, nn, dd)

Exact(op, l, r, res) == IF res.k = "ovf" THEN Sym(op, l, r) ELSE res

IsZero(x) == x.k = "fin" /\ x.n = 0

IsInteger(x) == x.k = "fin" /\ x.d = 1

Neg(x) ==
  CASE x.k = "fin" -> Fin(-x.s, x.n, x.d)
    [] x.k = "inf" -> Inf(-x.s)
    [] x.k = "nan" -> NaN
    [] OTHER -> Sym("neg", x, x)

NumAdd(x, y) ==
  CASE x.k = "sym" \/ y.k = "sym" -> Sym("+", x, y)
    [] x.k = "nan" \/ y.k = "nan" -> NaN
    [] x.k = "inf" /\ y.k = "inf" -> IF x.s = y.s THEN x ELSE NaN
    [] x.k = "inf" -> x
    [] y.k = "inf" -> y
    [] OTHER ->
         LET sv == x.s * x.n * y.d + y.s * y.n * x.d
         IN IF sv = 0
              THEN IF x.n = 0 /\ y.n = 0 /\ x.s = -1 /\ y.s = -1
                     THEN Fin(-1, 0, 1) ELSE Zero
              ELSE Exact("+", x, y,
                         Mk(IF sv < 0 THEN -1 ELSE 1,
                            IF sv < 0 THEN -sv ELSE sv, x.d * y.d))

NumSub(x, y) ==
  IF x.k = "sym" \/ y.k = "sym" THEN Sym("-", x, y)
  ELSE LET r == NumAdd(x, Neg(y))
       IN IF r.k = "sym" THEN Sym("-", x, y) ELSE r

NumMul(x, y) ==
  CASE x.k = "sym" \/ y.k = "sym" -> Sym("*", x, y)
    [] x.k = "nan" \/ y.k = "nan" -> NaN
    [] x.k = "inf" \/ y.k = "inf" ->
         IF IsZero(x) \/ IsZero(y) THEN NaN ELSE Inf(x.s * y.s)
    [] OTHER -> Exact("*", x, y, Mk(x.s * y.s, x.n * y.n, x.d * y.d))

NumDiv(x, y) ==
  CASE x.k = "sym" \/ y.k = "sym" -> Sym("/", x, y)
    [] x.k = "nan" \/ y.k = "nan" -> NaN
    [] x.k = "inf" -> IF y.k = "inf" THEN NaN ELSE Inf(x.s * y.s)
    [] y.k = "inf" -> Fin(x.s * y.s, 0, 1)
    [] y.n = 0 -> IF x.n = 0 THEN NaN ELSE Inf(x.s * y.s)
    [] OTHER -> Exact("/", x, y, Mk(x.s * y.s, x.n * y.d, x.d * y.n))

\* x to a natural power, by squaring
RECURSIVE PowNat(_, _)
PowNat(x, ex) ==
  IF ex = 0 THEN One
  ELSE IF ex % 2 = 0
    THEN LET h == PowNat(x, ex \div 2) IN NumMul(h, h)
    ELSE NumMul(PowNat(x, ex - 1), x)

\* Math.pow; exact for an integer exponent of a finite base
NumPow(x, y) ==
  CASE IsZero(y) -> One
    [] x.k = "sym" \/ y.k = "sym" -> Sym("^", x, y)
    [] x.k = "nan" \/ y.k = "nan" -> NaN
    [] x.k = "fin" /\ IsInteger(y) ->
         LET p == PowNat(x, y.n)
             r == IF y.s = 1 THEN p ELSE NumDiv(One, p)
         IN IF r.k = "sym" THEN Sym("^", x, y) ELSE r
    [] OTHER -> Sym("^", x, y)

(***************************************************************************)
(* Number(string) and String(number)                                       *)
(***************************************************************************)
RECURSIVE TrimLeft(_)
TrimLeft(str) ==
  IF str # << >> /\ Head(str) \in Spaces THEN TrimLeft(Tail(str)) ELSE str

RECURSIVE TrimRight(_)
TrimRight(str) ==
  IF str # << >> /\ str[Len(str)] \in Spaces
    THEN TrimRight(SubSeq(str, 1, Len(str) - 1)) ELSE str

Trim(str) == TrimRight(TrimLeft(str))

\* 0 when c does not occur
FirstIndex(str, cs) ==
  IF \E i \in DOMAIN str : str[i] \in cs
    THEN CHOOSE i \in DOMAIN str :
           str[i] \in cs /\ \A j \in 1..(i - 1) : str[j] \notin cs
    ELSE 0

AllDigits(str) == \A i \in DOMAIN str : str[i] \in Digits

\* the unsigned decimal literal split at its exponent mark and its point
Unsigned(str) == IF str # << >> /\ Head(str) \in {"+", "-"} THEN Tail(str) ELSE str

Mantissa(body) ==
  LET ei == FirstIndex(body, {"e", "E"})
  IN IF ei = 0 THEN body ELSE SubSeq(body, 1, ei - 1)

Exponent(body) ==
  LET ei == FirstIndex(body, {"e", "E"})
  IN IF ei = 0 THEN << >> ELSE SubSeq(body, ei + 1, Len(body))

IntPart(body) ==
  LET m == Mantissa(body)
      di == FirstIndex(m, {"."})
  IN IF di = 0 THEN m ELSE SubSeq(m, 1, di - 1)

FracPart(body) ==
  LET m == Mantissa(body)
      di == FirstIndex(m, {"."})
  IN IF di = 0 THEN << >> ELSE SubSeq(m, di + 1, Len(m))

\* Number(str) is not NaN: StringNumericLiteral, decimal forms (the hex,
\* octal, binary and Infinity forms cannot arise from a digit-initial scan)
IsDecimal(int, frac, hasExp, exd) ==
  /\ AllDigits(int)
  /\ AllDigits(frac)
  /\ Len(int) + Len(frac) > 0
  /\ hasExp => (AllDigits(exd) /\ exd # << >>)

IsNumeric_body(body) ==
  IsDecimal(IntPart(body), FracPart(body),
            FirstIndex(body, {"e", "E"}) # 0, Unsigned(Exponent(body)))

IsNumeric_trimmed(tr) == tr = << >> \/ IsNumeric_body(Unsigned(tr))

IsNumeric(str) == IsNumeric_trimmed(Trim(str))

RECURSIVE DigitsVal(_)
DigitsVal(str) ==
  IF str = << >> THEN 0
  ELSE 10 * DigitsVal(SubSeq(str, 1, Len(str) - 1)) + DigitVal(str[Len(str)])

RECURSIVE StripZeros(_)
StripZeros(str) ==
  IF Len(str) > 1 /\ Head(str) = "0" THEN StripZeros(Tail(str)) ELSE str

Literal(str) == Sym("lit", Str(str), Str(str))

\* Number(str) for a numeric str
\* an exact result, or the literal itself when it leaves the exact window
Finite(r, lit) == IF r.k = "sym" THEN lit ELSE r

\* mantissa m scaled by the power of ten of the exponent
Scaled(m, exs, shift, lit) ==
  Finite(IF exs = 1 THEN NumMul(m, shift) ELSE NumDiv(m, shift), lit)

\* the number with sign sg, digits ds of which fracLen follow the point,
\* and exponent digits exd of sign exs
Decimal(sg, ds, fracLen, exs, exd, lit) ==
  IF Len(ds) > MaxLitDigits \/ Len(exd) > 1 THEN lit
  ELSE Scaled(NumDiv(Fin(sg, DigitsVal(ds), 1), PowNat(IntNum(10), fracLen)),
              exs, PowNat(IntNum(10), DigitsVal(exd)), lit)

ToNumber_parts(tr, body, ex) ==
  Decimal(IF Head(tr) = "-" THEN -1 ELSE 1,
          StripZeros(IntPart(body) \o FracPart(body)),
          Len(FracPart(body)),
          IF ex # << >> /\ Head(ex) = "-" THEN -1 ELSE 1,
          StripZeros(Unsigned(ex)),
          Literal(tr))

ToNumber_trimmed(tr, body) ==
  IF tr = << >> THEN Zero ELSE ToNumber_parts(tr, body, Exponent(body))

ToNumber(str) == ToNumber_trimmed(Trim(str), Unsigned(Trim(str)))

RECURSIVE NatToStr(_)
NatToStr(n) ==
  IF n < 10 THEN << DigitSeq[n + 1] >>
  ELSE NatToStr(n \div 10) \o << DigitSeq[(n % 10) + 1] >>

\* String(x): exact for integers, NaN and the infinities; the decimal text
\* of any other number is one opaque character carrying the number
NumToStr(x) ==
  CASE x.k = "nan" -> << "N", "a", "N" >>
    [] x.k = "inf" ->
         (IF x.s = -1 THEN << "-" >> ELSE << >>)
           \o << "I", "n", "f", "i", "n", "i", "t", "y" >>
    [] IsInteger(x) ->
         (IF x.s = -1 /\ x.n # 0 THEN << "-" >> ELSE << >>) \o NatToStr(x.n)
    [] OTHER -> << x >>

(***************************************************************************)
(* utils.ts: nextX                                                         *)
(***************************************************************************)
\* mutant: the carry into a one-letter "Z" yields "A" instead of "AA"
RECURSIVE nextX_NoGrow(_)
nextX_NoGrow(str) ==
  LET last == IF str = << >> THEN "" ELSE str[Len(str)]
      init == SubSeq(str, 1, Len(str) - 1)
  IN IF str = << >> \/ last \notin Upper THEN Throw("invalid ref address")
     ELSE IF IndexOf(alphabet, last) = Len(alphabet)
       THEN IF Len(str) > 1
              THEN LET up == nextX_NoGrow(init)
                   IN IF IsThrow(up) THEN up ELSE Str(up.chars \o << "A" >>)
              ELSE Str(<< "A" >>)
     ELSE Str(init \o << alphabet[IndexOf(alphabet, last) + 1] >>)

RECURSIVE nextX(_)
nextX(str) ==
  LET last == IF str = << >> THEN "" ELSE str[Len(str)]
      init == SubSeq(str, 1, Len(str) - 1)
  IN IF str = << >> \/ last \notin Upper THEN Throw("invalid ref address")
     ELSE IF IndexOf(alphabet, last) = Len(alphabet)
       THEN IF Len(str) > 1
              THEN LET up == nextX(init)
                   IN IF IsThrow(up) THEN up ELSE Str(up.chars \o << "A" >>)
              ELSE Str(<< "A", "A" >>)
     ELSE Str(init \o << alphabet[IndexOf(alphabet, last) + 1] >>)

(***************************************************************************)
(* types.ts: Tokens, TokenNode, TokenStream, Lexer                         *)
(***************************************************************************)
FUNCTION_LIST ==
  << << "S", "U", "M" >>, << "A", "V", "E", "R", "A", "G", "E" >>,
     << "M", "A", "X" >>, << "M", "I", "N" >> >>

\* TokenStream.current before the first read
NULL == "null"

\* the reserved end character; a text holding it ends there
END_TOKEN == "END"

\* Lexer.operators and Lexer.delimiters, the default character classes
operators == { "+", "-", "*", "/", "^" }

delimiters == { "(", ")", ",", ":" }

\* a Number token holds a number, every other token a string
TokenNode(tokenType, tokenContent, tokenPosition) ==
  [tokenType |-> tokenType, tokenContent |-> tokenContent,
   tokenPosition |-> tokenPosition]

TokenStream(content) == [content |-> content, position |-> 0, current |-> NULL]

scan(content) == TokenStream(content)

read(ts) ==
  IF ts.position < Len(ts.content)
    THEN [ts EXCEPT !.current = ts.content[ts.position + 1],
                    !.position = ts.position + 1]
    ELSE [ts EXCEPT !.current = END_TOKEN]

\* the outcomes of next(): a token, a thrown Error, or no return at all
Scanned(tok, ts) == [ok |-> TRUE, tok |-> tok, ts |-> ts]

ScanFault(fault, ts) == [ok |-> FALSE, fault |-> fault, ts |-> ts]

InvalidToken == "Invalid token"

Diverges == "does not return"

\* for (read(); !isNaN(Number(value + current)); read()) value += current
RECURSIVE WhileNumeric(_, _)
WhileNumeric(val, ts) ==
  IF IsNumeric(Append(val, ts.current))
    THEN WhileNumeric(Append(val, ts.current), read(ts))
    ELSE [val |-> val, ts |-> ts, returns |-> TRUE]

\* for (read(); isNaN(Number(value + current)); read()) value += current
\* once current is END_TOKEN the text stays NaN and read() changes nothing
RECURSIVE WhileNotNumeric(_, _)
WhileNotNumeric(val, ts) ==
  IF IsNumeric(Append(val, ts.current))
    THEN [val |-> val, ts |-> ts, returns |-> TRUE]
    ELSE IF ts.current = END_TOKEN
      THEN [val |-> val, ts |-> ts, returns |-> FALSE]
      ELSE WhileNotNumeric(Append(val, ts.current), read(ts))

\* new TokenNode(Tokens.Number, Number(value), this.position)
\* new TokenNode(Tokens.Number, Number(value), this.position), when the
\* loops that gathered value came to an end
NumberToken(l) ==
  IF l.returns
    THEN Scanned(TokenNode("Number", ToNumber(l.val), l.ts.position), l.ts)
    ELSE ScanFault(Diverges, l.ts)

\* the two loops that read an exponent, entered after an "e"
readNumber_exponent(l2) ==
  IF l2.returns
    THEN WhileNumeric(Append(l2.val, l2.ts.current), read(l2.ts))
    ELSE l2

\* after the first loop: the "e" test and its one- and two-character peek
readNumber_e(content, l1) ==
  IF /\ l1.ts.current = "e"
     /\ \E k \in 1..2 :
          IsNumeric(Slice(content, l1.ts.position, l1.ts.position + k))
    THEN readNumber_exponent(
           WhileNotNumeric(Append(l1.val, l1.ts.current), read(l1.ts)))
    ELSE l1

readNumber(ts) ==
  NumberToken(readNumber_e(ts.content, WhileNumeric(<< ts.current >>, read(ts))))

RECURSIVE WhileWord(_, _)
WhileWord(val, ts) ==
  IF ts.current \in Upper \cup Lower \cup Digits \cup {"_"}
    THEN WhileWord(Append(val, ts.current), read(ts))
    ELSE [val |-> val, ts |-> ts]

\* the token of a word: a Function when the word is in FUNCTION_LIST
WordToken(l1) ==
  Scanned(TokenNode(IF l1.val \in Range(FUNCTION_LIST)
                      THEN "Function" ELSE "Reference",
                    l1.val, l1.ts.position),
          l1.ts)

readReference(ts) == WordToken(WhileWord(<< ts.current >>, read(ts)))

RECURSIVE next(_), next_current(_)
next(ts0) == next_current(IF ts0.current = NULL THEN read(ts0) ELSE ts0)

\* next() once current holds a character
next_current(ts) ==
  LET cur == ts.current
  IN IF cur = END_TOKEN THEN Scanned(TokenNode("End", << END_TOKEN >>, 0), ts)
     ELSE IF cur \in Spaces THEN next([ts EXCEPT !.current = NULL])
     ELSE IF cur \in Digits THEN readNumber(ts)
     ELSE IF cur \in Upper \cup Lower THEN readReference(ts)
     ELSE IF cur \in delimiters \cup operators
       THEN Scanned(TokenNode(IF cur \in delimiters THEN "Delimiter"
                                                    ELSE "Operator",
                              << cur >>, ts.position),
                    [ts EXCEPT !.current = NULL])
     ELSE ScanFault(InvalidToken, ts)

(***************************************************************************)
(* types.ts: the Expr nodes                                                *)
(***************************************************************************)
BinaryExpr(op, children) == [kind |-> "Binary", op |-> op, children |-> children]

UnaryExpr(op, children) == [kind |-> "Unary", op |-> op, children |-> children]

NumberExpr(op, children) == [kind |-> "Number", op |-> op, children |-> children]

ReferenceExpr(op, children) ==
  [kind |-> "Reference", op |-> op, children |-> children]

RangeRefExpr(op, children) ==
  [kind |-> "RangeRef", op |-> op, children |-> children]

FunctionExpr(op, children) ==
  [kind |-> "Function", op |-> op, children |-> children]

(***************************************************************************)
(* parser.ts: Parser                                                       *)
(***************************************************************************)
\* a Parser after construction: no token stream, current = Empty token
Parser == [tokenStream |-> TokenStream(<< >>),
           scanned |-> FALSE,
           current |-> TokenNode("Empty", << END_TOKEN >>, 0)]

\* the outcomes of a parsing method: a node (or argument list) with the
\* parser state after it, or the Error thrown with the state it left
Parsed(node, p) == [ok |-> TRUE, node |-> node, p |-> p]

ParseFault(fault, p) == [ok |-> FALSE, fault |-> fault, p |-> p]

UnclosedParentheses == "unclosed parentheses in expression"

InvalidExpression == "Invalid expression"

OpenParenExpected == "open paren is expected after a function"

\* this.current = the token next() returned; a throw leaves current alone
Parser_advance(p, r) ==
  IF r.ok
    THEN Parsed(<< >>, [p EXCEPT !.tokenStream = r.ts, !.current = r.tok])
    ELSE ParseFault(r.fault, [p EXCEPT !.tokenStream = r.ts])

\* this.current = this.tokenStream?.next() || this.current
Parser_next(p) ==
  IF p.scanned THEN Parser_advance(p, next(p.tokenStream)) ELSE Parsed(<< >>, p)

isOperator(op, c) == op.tokenType = "Operator" /\ op.tokenContent = << c >>

isDelimiter(op, c) == op.tokenType = "Delimiter" /\ op.tokenContent = << c >>

\* Each method below is split where it calls another: X_y(...) is method X
\* from the point where the value y has come back.
RECURSIVE e(_), e1(_, _), e1_loop(_, _, _), t(_), t1(_, _), t1_loop(_, _, _)
RECURSIVE u(_), u1(_, _), u1_loop(_, _, _), s(_), f(_), a(_)
RECURSIVE a1Loop(_, _, _)

parseExpr(p) == e(p)

e_lhs(lhs) == IF lhs.ok THEN e1(lhs.node, lhs.p) ELSE lhs

e(p) == e_lhs(t(p))

\* mutant: the right operand of + and - is everything that follows
e1_rhs_RightAssoc(lhs, op, nx) ==
  IF nx.ok THEN e1_loop(lhs, op, e(nx.p)) ELSE nx

e1_rhs(lhs, op, nx) == IF nx.ok THEN e1_loop(lhs, op, t(nx.p)) ELSE nx

e1_loop(lhs, op, rhs) ==
  IF rhs.ok THEN e1(BinaryExpr(op, << lhs, rhs.node >>), rhs.p) ELSE rhs

e1(lhs, p) ==
  IF isOperator(p.current, "+") \/ isOperator(p.current, "-")
    THEN e1_rhs(lhs, p.current, Parser_next(p))
    ELSE Parsed(lhs, p)

t_lhs(lhs) == IF lhs.ok THEN t1(lhs.node, lhs.p) ELSE lhs

t(p) == t_lhs(u(p))

t1_rhs(lhs, op, nx) == IF nx.ok THEN t1_loop(lhs, op, u(nx.p)) ELSE nx

t1_loop(lhs, op, rhs) ==
  IF rhs.ok THEN t1(BinaryExpr(op, << lhs, rhs.node >>), rhs.p) ELSE rhs

t1(lhs, p) ==
  IF isOperator(p.current, "*") \/ isOperator(p.current, "/")
    THEN t1_rhs(lhs, p.current, Parser_next(p))
    ELSE Parsed(lhs, p)

u_lhs(lhs) == IF lhs.ok THEN u1(lhs.node, lhs.p) ELSE lhs

u(p) == u_lhs(s(p))

\* mutant: the right operand of ^ is everything that follows at its level
u1_rhs_RightAssoc(lhs, op, nx) ==
  IF nx.ok THEN u1_loop(lhs, op, u(nx.p)) ELSE nx

u1_rhs(lhs, op, nx) == IF nx.ok THEN u1_loop(lhs, op, s(nx.p)) ELSE nx

u1_loop(lhs, op, rhs) ==
  IF rhs.ok THEN u1(BinaryExpr(op, << lhs, rhs.node >>), rhs.p) ELSE rhs

u1(lhs, p) ==
  IF isOperator(p.current, "^")
    THEN u1_rhs(lhs, p.current, Parser_next(p))
    ELSE Parsed(lhs, p)

s_node(op, argument) ==
  IF argument.ok
    THEN Parsed(UnaryExpr(op, << argument.node >>), argument.p)
    ELSE argument

s_argument(op, nx) == IF nx.ok THEN s_node(op, f(nx.p)) ELSE nx

s(p) ==
  IF isOperator(p.current, "-")
    THEN s_argument(p.current, Parser_next(p))
    ELSE f(p)

\* the this.next() that steps over a closing parenthesis
Closed(node, closed) == IF closed.ok THEN Parsed(node, closed.p) ELSE closed

f_expression(expression) ==
  IF ~ expression.ok THEN expression
  ELSE IF ~ isDelimiter(expression.p.current, ")")
    THEN ParseFault(UnclosedParentheses, expression.p)
  ELSE Closed(expression.node, Parser_next(expression.p))

f_params(token, params) ==
  IF params.ok
    THEN Parsed(FunctionExpr(token, params.node), params.p)
    ELSE params

f_token(token, nx) ==
  IF ~ nx.ok THEN nx
  ELSE IF isDelimiter(token, "(") THEN f_expression(parseExpr(nx.p))
  ELSE IF token.tokenType = "Number" THEN Parsed(NumberExpr(token, << >>), nx.p)
  ELSE IF token.tokenType = "Reference"
    THEN Parsed(ReferenceExpr(token, << >>), nx.p)
  ELSE f_params(token, a(nx.p))

f(p) ==
  IF \/ isDelimiter(p.current, "(")
     \/ p.current.tokenType \in { "Number", "Reference", "Function" }
    THEN f_token(p.current, Parser_next(p))
    ELSE ParseFault(InvalidExpression, p)

\* the body of the while loop of a1 once nextExpr is parsed
a1_nextExpr(op, result, nextExpr) ==
  LET prevExpr == result[Len(result)]
  IN IF ~ nextExpr.ok THEN nextExpr
     ELSE a1Loop(op,
                 IF op.tokenContent = << "," >>
                   THEN Append(result, nextExpr.node)
                 ELSE IF /\ prevExpr.kind = "Reference"
                         /\ nextExpr.node.kind = "Reference"
                   THEN [result EXCEPT ![Len(result)] =
                           RangeRefExpr(op, << prevExpr, nextExpr.node >>)]
                 ELSE result,
                 nextExpr.p)

a1_next(op, result, nx) ==
  IF nx.ok THEN a1_nextExpr(op, result, parseExpr(nx.p)) ELSE nx

\* the while loop of a1: op is the token read before the loop
a1Loop(op, result, p) ==
  IF ~ (isDelimiter(op, ",") \/ isDelimiter(op, ":")) THEN Parsed(result, p)
  ELSE IF \/ isDelimiter(p.current, ")")
          \/ /\ p.current.tokenType # "Number"
             /\ p.current.tokenContent = << END_TOKEN >>
    THEN Parsed(result, p)
  ELSE a1_next(op, result, Parser_next(p))

a1(lhs, p) == a1Loop(p.current, << lhs >>, p)

a_paramExprs(paramExprs) ==
  IF ~ paramExprs.ok THEN paramExprs
  ELSE IF ~ isDelimiter(paramExprs.p.current, ")")
    THEN ParseFault(UnclosedParentheses, paramExprs.p)
  ELSE Closed(paramExprs.node, Parser_next(paramExprs.p))

a_lhs(lhs) == IF lhs.ok THEN a_paramExprs(a1(lhs.node, lhs.p)) ELSE lhs

a_next(nx) == IF nx.ok THEN a_lhs(parseExpr(nx.p)) ELSE nx

a(p) ==
  IF isDelimiter(p.current, "(")
    THEN a_next(Parser_next(p))
    ELSE ParseFault(OpenParenExpected, p)

parse_first(nx) == IF nx.ok THEN parseExpr(nx.p) ELSE nx

\* parse without its call of next() on a parser that has parsed before:
\* the lookahead token of the earlier call stays in place
parse_KeepLookahead(p, content) ==
  IF p.scanned
    THEN parseExpr([p EXCEPT !.tokenStream = scan(content)])
    ELSE parse_first(Parser_next([p EXCEPT !.tokenStream = scan(content),
                                           !.scanned = TRUE]))

parse(p, content) ==
  parse_first(Parser_next([p EXCEPT !.tokenStream = scan(content),
                                    !.scanned = TRUE]))

(***************************************************************************)
(* types.ts: the value classes                                             *)
(***************************************************************************)
\* the text of a StringValue is held as Str(chars)
StringValue(v) == [type |-> "string", value |-> Str(v)]

NumberValue(v) == [type |-> "number", value |-> v]

NullValue == [type |-> "null"]

ErrorValue(message) == [type |-> "error", message |-> message]

CollectionValue(values) == [type |-> "collection", values |-> values]

(***************************************************************************)
(* JavaScript values as the engine handles them after getValue():          *)
(* primitives, arrays, and objects (instances of the value classes)        *)
(***************************************************************************)
JsNumber(v) == [js |-> "number", v |-> v]

JsString(v) == [js |-> "string", v |-> v]

JsNull == [js |-> "null"]

JsObject(v) == [js |-> "object", v |-> v]

JsArray(v) == [js |-> "array", v |-> v]

ObjectObject ==
  << "[", "o", "b", "j", "e", "c", "t", " ", "O", "b", "j", "e", "c", "t", "]" >>

\* BaseValue.getValue() of each class
getValue(v) ==
  CASE v.type = "number" -> JsNumber(v.value)
    [] v.type = "string" -> JsString(v.value.chars)
    [] v.type = "null" -> JsNull
    [] v.type = "error" -> JsObject(v)
    [] v.type = "collection" ->
         JsArray([i \in DOMAIN v.values |-> JsObject(v.values[i])])

RECURSIVE JsToString(_)
\* Array.prototype.join(","): null elements give the empty string
RECURSIVE Join(_)
Join(elems) ==
  IF elems = << >> THEN << >>
  ELSE (IF Head(elems).js = "null" THEN << >> ELSE JsToString(Head(elems)))
         \o (IF Len(elems) > 1 THEN << "," >> ELSE << >>)
         \o Join(Tail(elems))

\* String(x); for an object the class's toString(), Object.prototype's
\* where the class defines none
JsToString(x) ==
  CASE x.js = "number" -> NumToStr(x.v)
    [] x.js = "string" -> x.v
    [] x.js = "null" -> << "n", "u", "l", "l" >>
    [] x.js = "array" -> Join(x.v)
    [] x.js = "object" ->
         CASE x.v.type = "number" -> NumToStr(x.v.value)
           [] x.v.type = "null" -> << >>
           [] x.v.type = "collection" ->
                Join([i \in DOMAIN x.v.values |-> JsObject(x.v.values[i])])
           [] OTHER -> ObjectObject

\* ToPrimitive: arrays and objects convert through toString()
JsToPrimitive(x) ==
  CASE x.js = "array" -> JsString(JsToString(x))
    [] x.js = "object" ->
         IF x.v.type = "number" THEN JsNumber(x.v.value)
         ELSE JsString(JsToString(x))
    [] OTHER -> x

\* Number(x)
\* Number(pr) for a primitive
PrimitiveToNumber(pr) ==
  CASE pr.js = "number" -> pr.v
    [] pr.js = "null" -> Zero
    [] pr.js = "string" -> IF IsNumeric(pr.v) THEN ToNumber(pr.v) ELSE NaN

JsToNumber(x) == PrimitiveToNumber(JsToPrimitive(x))

\* typeof x
TypeOf(x) ==
  CASE x.js = "number" -> "number"
    [] x.js = "string" -> "string"
    [] OTHER -> "object"

\* x is falsy: 0, -0, NaN, "", null
Falsy(x) ==
  CASE x.js = "number" -> x.v.k = "nan" \/ IsZero(x.v)
    [] x.js = "string" -> x.v = << >>
    [] x.js = "null" -> TRUE
    [] OTHER -> FALSE

\* a + b
AddPrimitives(px, py) ==
  IF px.js = "string" \/ py.js = "string"
    THEN JsString(JsToString(px) \o JsToString(py))
    ELSE JsNumber(NumAdd(PrimitiveToNumber(px), PrimitiveToNumber(py)))

JsAdd(x, y) == AddPrimitives(JsToPrimitive(x), JsToPrimitive(y))

\* x < y on numbers (false when either is NaN); uninterpreted terms are
\* not ordered by the model
NumLT(x, y) ==
  CASE x.k = "nan" \/ y.k = "nan" -> FALSE
    [] x.k = "sym" \/ y.k = "sym" -> FALSE
    [] x.k = "inf" /\ y.k = "inf" -> x.s < y.s
    [] x.k = "inf" -> x.s = -1
    [] y.k = "inf" -> y.s = 1
    [] OTHER -> x.s * x.n * y.d < y.s * y.n * x.d

\* a < b
LessPrimitives(px, py) ==
  IF px.js = "string" /\ py.js = "string" THEN StrLT(px.v, py.v)
  ELSE NumLT(PrimitiveToNumber(px), PrimitiveToNumber(py))

JsLT(x, y) == LessPrimitives(JsToPrimitive(x), JsToPrimitive(y))

(***************************************************************************)
(* the function registry                                                   *)
(***************************************************************************)
\* utils.ts unboxValue (not in the sources at hand): the plain value of a
\* scalar, the array of the unboxed members of a collection
RECURSIVE unboxValue(_)
unboxValue(v) ==
  IF v.type = "collection"
    THEN JsArray([i \in DOMAIN v.values |-> unboxValue(v.values[i])])
    ELSE getValue(v)

\* Array.prototype.flat(): one level
RECURSIVE Flat(_)
Flat(elems) ==
  IF elems = << >> THEN << >>
  ELSE (IF Head(elems).js = "array" THEN Head(elems).v ELSE << Head(elems) >>)
         \o Flat(Tail(elems))

\* values.map((v) => unboxValue(v)).flat()
flatValues(values) == Flat([i \in DOMAIN values |-> unboxValue(values[i])])

\* Array.prototype.reduce with an initial value
RECURSIVE ReduceAdd(_, _)
ReduceAdd(acc, elems) ==
  IF elems = << >> THEN acc ELSE ReduceAdd(JsAdd(acc, Head(elems)), Tail(elems))

RECURSIVE ReduceMax(_, _)
ReduceMax(acc, elems) ==
  IF elems = << >> THEN acc
  ELSE ReduceMax(IF JsLT(Head(elems), acc) THEN acc ELSE Head(elems), Tail(elems))

RECURSIVE ReduceMin(_, _)
ReduceMin(acc, elems) ==
  IF elems = << >> THEN acc
  ELSE ReduceMin(IF JsLT(acc, Head(elems)) THEN acc ELSE Head(elems), Tail(elems))

\* the typeof dispatch every registry function ends with
Boxed(result) ==
  CASE result.js = "string" -> StringValue(result.v)
    [] result.js = "number" -> NumberValue(result.v)
    [] OTHER -> NumberValue(NaN)

SUM(values) ==
  LET fv == flatValues(values)
      init == IF \E i \in DOMAIN fv : fv[i].js = "string"
                THEN JsString(<< >>) ELSE JsNumber(Zero)
  IN IF Len(fv) = 0 THEN NullValue ELSE Boxed(ReduceAdd(init, fv))

AVERAGE(values) ==
  LET fv == flatValues(values)
      result == ReduceAdd(JsNumber(Zero), fv)
  IN IF Len(fv) = 0 THEN NullValue
     ELSE IF result.js = "number"
       THEN NumberValue(NumDiv(result.v, IntNum(Len(fv))))
       ELSE NumberValue(NaN)

MAX(values) ==
  LET fv == flatValues(values)
  IN IF Len(fv) = 0 THEN NullValue ELSE Boxed(ReduceMax(Head(fv), Tail(fv)))

MIN(values) ==
  LET fv == flatValues(values)
  IN IF Len(fv) = 0 THEN NullValue ELSE Boxed(ReduceMin(Head(fv), Tail(fv)))

FUNCTION_MAP(name, values) ==
  CASE name = << "S", "U", "M" >> -> SUM(values)
    [] name = << "A", "V", "E", "R", "A", "G", "E" >> -> AVERAGE(values)
    [] name = << "M", "A", "X" >> -> MAX(values)
    [] name = << "M", "I", "N" >> -> MIN(values)

(***************************************************************************)
(* types.ts: the evaluate methods                                          *)
(***************************************************************************)
\* Map.prototype.get: the context is a function on the ids it holds
Has(c, id) == id \in DOMAIN c

\* x instanceof Array: true of a plain array only, and a context typed
\* Map<string, BaseValue> holds instances of the value classes
InstanceOfArray(v) == v.type = "array"

\* (x || "").toString()
OrEmptyToString(x) == IF Falsy(x) THEN << >> ELSE JsToString(x)

\* /^[A-Z]+_[1-9]+[0-9]*$/
MatchesRefId(id) ==
  LET ui == FirstIndex(id, {"_"})
      col == SubSeq(id, 1, ui - 1)
      row == SubSeq(id, ui + 1, Len(id))
  IN /\ ui > 1
     /\ ui < Len(id)
     /\ \A i \in DOMAIN col : col[i] \in Upper
     /\ AllDigits(row)
     /\ row[1] # "0"

\* id.split("_") of a matching id
ColumnOf(id) == SubSeq(id, 1, FirstIndex(id, {"_"}) - 1)

RowOf(id) == SubSeq(id, FirstIndex(id, {"_"}) + 1, Len(id))

\* mutant: a missing cell of a range resolves like a missing reference
RECURSIVE RowLoop_MissingIsNaN(_, _, _, _)
RowLoop_MissingIsNaN(minX, minY, maxY, c) ==
  IF minY <= maxY
    THEN LET currentId == minX \o << "_" >> \o NatToStr(minY)
         IN << IF Has(c, currentId) THEN c[currentId] ELSE NumberValue(NaN) >>
              \o RowLoop_MissingIsNaN(minX, minY + 1, maxY, c)
    ELSE << >>

\* the inner while loop of RangeRefExpr.evaluate
RECURSIVE RowLoop(_, _, _, _)
RowLoop(minX, minY, maxY, c) ==
  IF minY <= maxY
    THEN LET currentId == minX \o << "_" >> \o NatToStr(minY)
         IN << IF Has(c, currentId) THEN c[currentId] ELSE NullValue >>
              \o RowLoop(minX, minY + 1, maxY, c)
    ELSE << >>

\* one test of the outer while loop of RangeRefExpr.evaluate and, when it
\* holds, one run of its body
ColumnStep(st, maxX, minY, maxY, c) ==
  IF ~ st.running THEN st
  ELSE IF StrLE(st.minX, maxX)
    THEN LET nx == nextX(st.minX)
         IN IF IsThrow(nx)
              THEN [st EXCEPT !.running = FALSE, !.thrown = TRUE]
              ELSE [st EXCEPT !.minX = nx.chars,
                              !.result = @ \o RowLoop(st.minX, minY, maxY, c)]
    ELSE [st EXCEPT !.running = FALSE]

\* 2^k iterations of the outer loop, or fewer when it ends before
RECURSIVE ColumnSteps(_, _, _, _, _, _)
ColumnSteps(st, k, maxX, minY, maxY, c) ==
  IF k = 0 THEN ColumnStep(st, maxX, minY, maxY, c)
  ELSE LET half == ColumnSteps(st, k - 1, maxX, minY, maxY, c)
       IN IF half.running THEN ColumnSteps(half, k - 1, maxX, minY, maxY, c)
          ELSE half

\* the outer while loop of RangeRefExpr.evaluate, run to its end
RECURSIVE ColumnLoop(_, _, _, _, _, _)
ColumnLoop(st, k, maxX, minY, maxY, c) ==
  LET after == ColumnSteps(st, k, maxX, minY, maxY, c)
  IN IF after.running THEN ColumnLoop(after, k + 1, maxX, minY, maxY, c)
     ELSE IF after.thrown THEN Throw("invalid ref address")
     ELSE CollectionValue(after.result)

LoopStart(minX) ==
  [minX |-> minX, result |-> << >>, running |-> TRUE, thrown |-> FALSE]

\* mutant: the rows run from the left endpoint's to the right endpoint's
RangeRefExpr_evaluate_NoRowSwap(node, c) ==
  LET left == node.children[1].op.tokenContent
      right == node.children[2].op.tokenContent
      lx == ColumnOf(left)
      rx == ColumnOf(right)
  IN IF ~ MatchesRefId(left) \/ ~ MatchesRefId(right)
       THEN Throw("invalid reference id")
       ELSE ColumnLoop(LoopStart(IF StrGT(lx, rx) THEN rx ELSE lx), 0,
                       IF StrGT(lx, rx) THEN lx ELSE rx,
                       DigitsVal(RowOf(left)), DigitsVal(RowOf(right)), c)

RangeRefExpr_evaluate(node, c) ==
  LET lop == node.children[1].op
      rop == node.children[2].op
      left == lop.tokenContent
      right == rop.tokenContent
      lx == ColumnOf(left)
      ly == RowOf(left)
      rx == ColumnOf(right)
      ry == RowOf(right)
      minX == IF StrGT(lx, rx) THEN rx ELSE lx
      maxX == IF StrGT(lx, rx) THEN lx ELSE rx
      minY == DigitsVal(IF StrGT(ly, ry) THEN ry ELSE ly)
      maxY == DigitsVal(IF StrGT(ly, ry) THEN ly ELSE ry)
  IN IF Len(node.children) # 2
       THEN ErrorValue("range reference expression must have 2 children")
     ELSE IF lop.tokenType = "Number" \/ rop.tokenType = "Number"
       THEN Throw("invalid reference id")
     ELSE IF ~ MatchesRefId(left) \/ ~ MatchesRefId(right)
       THEN Throw("invalid reference id")
     ELSE ColumnLoop(LoopStart(minX), 0, maxX, minY, maxY, c)

\* if (value) return value: ctx.get gives undefined for an absent id; a
\* value object is truthy, a plain 0, NaN, "" or null is not
ReferenceExpr_evaluate(node, c) ==
  IF node.op.tokenType = "Number" THEN ErrorValue("invalid reference id")
  ELSE IF /\ Has(c, node.op.tokenContent)
          /\ ~ (/\ "js" \in DOMAIN c[node.op.tokenContent]
                /\ Falsy(c[node.op.tokenContent]))
    THEN c[node.op.tokenContent]
  ELSE NumberValue(NaN)

NumberExpr_evaluate(node, c) ==
  IF node.op.tokenType = "Number" THEN NumberValue(node.op.tokenContent)
  ELSE NumberValue(NaN)

\* the switch on the operator; l and r are Number(leftValue), Number(rightValue)
BinaryExpr_switch(operator, leftValue, rightValue, l, r) ==
  CASE operator = << "+" >> ->
         IF TypeOf(leftValue) = "string" \/ TypeOf(rightValue) = "string"
           THEN StringValue(OrEmptyToString(leftValue)
                              \o OrEmptyToString(rightValue))
           ELSE NumberValue(NumAdd(l, r))
    [] operator = << "-" >> -> NumberValue(NumSub(l, r))
    [] operator = << "*" >> -> NumberValue(NumMul(l, r))
    [] operator = << "/" >> -> NumberValue(NumDiv(l, r))
    [] operator = << "^" >> -> NumberValue(NumPow(l, r))
    [] OTHER -> NullValue

\* BinaryExpr.evaluate once both children have returned
BinaryExpr_combine(node, left, right) ==
  IF left.type = "error" THEN left
  ELSE IF right.type = "error" THEN right
  ELSE IF InstanceOfArray(left) \/ InstanceOfArray(right)
    THEN ErrorValue("params for binary op shouldn't be array")
  ELSE BinaryExpr_switch(node.op.tokenContent, getValue(left), getValue(right),
                         JsToNumber(getValue(left)), JsToNumber(getValue(right)))

\* UnaryExpr.evaluate without its typeof test: the operand is coerced as
\* JavaScript's unary minus coerces it
UnaryExpr_apply_Coerce(node, val) ==
  IF val.type = "error" THEN val
  ELSE IF node.op.tokenType = "Empty"
    THEN NumberValue(JsToNumber(getValue(val)))
  ELSE IF node.op.tokenContent = << "-" >>
    THEN NumberValue(Neg(JsToNumber(getValue(val))))
  ELSE NumberValue(NaN)

\* UnaryExpr.evaluate once the child has returned
UnaryExpr_apply(node, val) ==
  IF val.type = "error" THEN val
  ELSE IF TypeOf(getValue(val)) # "number"
    THEN ErrorValue("unary expression can only receive number")
  ELSE IF node.op.tokenType = "Empty" THEN NumberValue(val.value)
  ELSE IF node.op.tokenContent = << "-" >> THEN NumberValue(Neg(val.value))
  ELSE NumberValue(NaN)

\* the first thrown Error among evaluated children, in order, if any
FirstThrow(vals) ==
  LET i == CHOOSE i \in DOMAIN vals :
             IsThrow(vals[i]) /\ \A j \in 1..(i - 1) : ~ IsThrow(vals[j])
  IN vals[i]

RECURSIVE evaluate(_, _)
evaluate(node, c) ==
  LET vals == [i \in DOMAIN node.children |-> evaluate(node.children[i], c)]
  IN CASE node.kind = "Number" -> NumberExpr_evaluate(node, c)
       [] node.kind = "Reference" -> ReferenceExpr_evaluate(node, c)
       [] node.kind = "RangeRef" -> RangeRefExpr_evaluate(node, c)
       [] node.kind = "Binary" ->
            IF Len(node.children) # 2
              THEN ErrorValue("binary expression must have 2 children")
            ELSE IF \E i \in DOMAIN vals : IsThrow(vals[i]) THEN FirstThrow(vals)
            ELSE BinaryExpr_combine(node, vals[1], vals[2])
       [] node.kind = "Unary" ->
            IF Len(node.children) # 1
              THEN ErrorValue("unary expression must have exactly one child")
            ELSE IF IsThrow(vals[1]) THEN vals[1]
            ELSE UnaryExpr_apply(node, vals[1])
       [] node.kind = "Function" ->
            IF \E i \in DOMAIN vals : IsThrow(vals[i]) THEN FirstThrow(vals)
            ELSE IF \/ node.op.tokenType = "Number"
                    \/ node.op.tokenContent \notin Range(FUNCTION_LIST)
              THEN Throw("invalid function name")
            ELSE FUNCTION_MAP(node.op.tokenContent, vals)

(***************************************************************************)
(* The engine in use: a text is parsed, the tree it yields is evaluated    *)
(* against a context (calc.test.ts); nextX is applied to a column name     *)
(* (utils.test.ts).                                                        *)
(***************************************************************************)
NoTree == [t |-> "none"]

NoExpr == [kind |-> "None"]

NoValue == [type |-> "none"]

Fault(fault) == [kind |-> "Fault", fault |-> fault]

EmptyCtx == [id \in {} |-> NullValue]

\* const expr = parser.parse(text)
Parse ==
  /\ pc = "start"
  /\ \E r \in { parse(parser, text) } :
       /\ parser' = r.p
       /\ expr' = IF r.ok THEN r.node ELSE Fault(r.fault)
       /\ pc' = IF r.ok THEN "parsed"
                ELSE IF r.fault = Diverges THEN "hung" ELSE "failed"
  /\ UNCHANGED <<text, tree, ctx, value>>

\* expr.evaluate(ctx)
Evaluate ==
  /\ pc = "parsed"
  /\ value' = evaluate(expr, ctx)
  /\ pc' = "evaluated"
  /\ UNCHANGED <<text, tree, parser, expr, ctx>>

\* nextX(text)
NextColumn ==
  /\ pc = "start"
  /\ value' = nextX(text)
  /\ pc' = "evaluated"
  /\ UNCHANGED <<text, tree, parser, expr, ctx>>

(***************************************************************************)
(* nextX on column names                                                   *)
(***************************************************************************)
Columns == UNION { [1..n -> Upper] : n \in 1..MaxColLen }

InitNextX ==
  /\ pc = "start"
  /\ text \in Columns
  /\ tree = NoTree
  /\ parser = Parser
  /\ expr = NoExpr
  /\ ctx = EmptyCtx
  /\ value = NoValue

NextNextX == NextColumn

SpecNextX == InitNextX /\ [][NextNextX]_vars

\* position of a column name in spreadsheet order (A = 1, Z = 26, AA = 27)
RECURSIVE ColumnNumber(_)
ColumnNumber(col) ==
  IF col = << >> THEN 0
  ELSE 26 * ColumnNumber(SubSeq(col, 1, Len(col) - 1))
         + IndexOf(alphabet, col[Len(col)])

\* C8: nextX returns, for every non-empty string of letters A-Z, its
\* successor in spreadsheet column order (A->B, Z->AA, AZ->BA, ZZ->AAA): a
\* string of letters A-Z, never shorter than the input, one position later
C8_NextXIsSuccessor ==
  pc = "evaluated" =>
    /\ value.type = "str"
    /\ \A i \in DOMAIN value.chars : value.chars[i] \in Upper
    /\ Len(value.chars) >= Len(text)
    /\ ColumnNumber(value.chars) = ColumnNumber(text) + 1
    /\ text = << "A" >> => value.chars = << "B" >>
    /\ text = << "Z" >> => value.chars = << "A", "A" >>
    /\ text = << "A", "Z" >> => value.chars = << "B", "A" >>
    /\ text = << "Z", "Z" >> => value.chars = << "A", "A", "A" >>

C8_Witness ==
  /\ pc = "evaluated"
  /\ text = << "Z", "Z" >>
  /\ value = Str(<< "A", "A", "A" >>)

(***************************************************************************)
(* Arithmetic expressions: generated as trees, written out with the        *)
(* parentheses standard precedence requires, parsed and evaluated          *)
(***************************************************************************)
Leaf(i) == [t |-> "num", v |-> IntNum(i)]

Bin(op, l, r) == [t |-> "bin", op |-> op, l |-> l, r |-> r]

ArithOps == { "+", "-", "*", "/", "^" }

ArithLeaves == { Leaf(2), Leaf(3) }

\* the trees with exactly n binary operators
RECURSIVE TreesOf(_)
TreesOf(n) ==
  IF n = 0 THEN ArithLeaves
  ELSE UNION { { Bin(op, l, r) : op \in ArithOps, l \in TreesOf(m),
                                 r \in TreesOf(n - 1 - m) } : m \in 0..(n - 1) }

\* calc.test.ts: 1 + 2 - 3, 1 + 2 * 3, (1 + 2) * 3, 2 ^ 4
TestTrees ==
  { Bin("-", Bin("+", Leaf(1), Leaf(2)), Leaf(3)),
    Bin("+", Leaf(1), Bin("*", Leaf(2), Leaf(3))),
    Bin("*", Bin("+", Leaf(1), Leaf(2)), Leaf(3)),
    Bin("^", Leaf(2), Leaf(4)) }

ArithTrees == TestTrees \cup UNION { TreesOf(n) : n \in 0..MaxOps }

\* binding strength in standard notation; every level groups left to right
Prec(op) == IF op \in {"+", "-"} THEN 1 ELSE IF op \in {"*", "/"} THEN 2 ELSE 3

\* the tokens of a tree; parentheses only where a child binds less tightly
\* than its position needs
RECURSIVE Write(_, _)
Write(tr, need) ==
  IF tr.t = "num" THEN << NatToStr(tr.v.n) >>
  ELSE LET inner == Write(tr.l, Prec(tr.op)) \o << << tr.op >> >>
                      \o Write(tr.r, Prec(tr.op) + 1)
       IN IF Prec(tr.op) < need
            THEN << << "(" >> >> \o inner \o << << ")" >> >>
            ELSE inner

\* the text of a token list, with or without blanks between tokens
RECURSIVE Spell(_, _)
Spell(toks, blank) ==
  IF toks = << >> THEN << >>
  ELSE Head(toks)
         \o (IF blank /\ Len(toks) > 1 THEN << " " >> ELSE << >>)
         \o Spell(Tail(toks), blank)

\* the value of a tree by ordinary arithmetic on its structure
RECURSIVE Meaning(_)
Meaning(tr) ==
  IF tr.t = "num" THEN tr.v
  ELSE LET x == Meaning(tr.l)
           y == Meaning(tr.r)
       IN CASE tr.op = "+" -> NumAdd(x, y)
            [] tr.op = "-" -> NumSub(x, y)
            [] tr.op = "*" -> NumMul(x, y)
            [] tr.op = "/" -> NumDiv(x, y)
            [] tr.op = "^" -> NumPow(x, y)

\* the operators a tree uses
RECURSIVE OpsOf(_)
OpsOf(tr) == IF tr.t = "num" THEN {} ELSE {tr.op} \cup OpsOf(tr.l) \cup OpsOf(tr.r)

\* the tree a parsed expression stands for
RECURSIVE Shape(_)
Shape(node) ==
  CASE node.kind = "Number" -> [t |-> "num", v |-> node.op.tokenContent]
    [] node.kind = "Binary" ->
         Bin(node.op.tokenContent[1], Shape(node.children[1]),
             Shape(node.children[2]))
    [] OTHER -> [t |-> node.kind]

InitArith ==
  /\ pc = "start"
  /\ tree \in ArithTrees
  /\ \E blank \in BOOLEAN : text = Spell(Write(tree, 0), blank)
  /\ parser = Parser
  /\ expr = NoExpr
  /\ ctx = EmptyCtx
  /\ value = NoValue

NextArith == Parse \/ Evaluate

SpecArith == InitArith /\ [][NextArith]_vars

\* C1: for every well-formed expression of integer literals, + - * / and
\* parentheses, parse then evaluate on an empty context returns the value
\* standard precedence gives: * and / bind tighter than + and -, equal
\* levels group left to right, a parenthesised part is one unit
C1_StandardPrecedence ==
  /\ pc \in {"failed", "hung"} => "^" \in OpsOf(tree)
  /\ (pc = "evaluated" /\ "^" \notin OpsOf(tree)) =>
       value = NumberValue(Meaning(tree))

C1_Witness ==
  /\ pc = "evaluated"
  /\ text = << "1", " ", "+", " ", "2", " ", "*", " ", "3" >>
  /\ tree = Bin("+", Leaf(1), Bin("*", Leaf(2), Leaf(3)))
  /\ value = NumberValue(IntNum(7))

\* C2: ^ is left-associative and binds tighter than * and /: the parser
\* builds Binary(^, Binary(^, a, b), c) for a ^ b ^ c, so 2 ^ 3 ^ 2 is 64
C2_PowerLeftAssoc ==
  /\ (pc \in {"parsed", "evaluated"} /\ "^" \in OpsOf(tree)) =>
       Shape(expr) = tree
  /\ (pc = "evaluated" /\ text = << "2", "^", "3", "^", "2" >>) =>
       /\ Shape(expr) = Bin("^", Bin("^", Leaf(2), Leaf(3)), Leaf(2))
       /\ value = NumberValue(IntNum(64))
  /\ (pc = "evaluated" /\ text = << "2", "*", "3", "^", "2" >>) =>
       /\ Shape(expr) = Bin("*", Leaf(2), Bin("^", Leaf(3), Leaf(2)))
       /\ value = NumberValue(IntNum(18))

C2_Witness ==
  /\ pc = "evaluated"
  /\ text = << "2", "^", "3", "^", "2" >>
  /\ value = NumberValue(IntNum(64))

(***************************************************************************)
(* Ranges and references evaluated against a context                       *)
(***************************************************************************)
Id(col, row) == col \o << "_" >> \o NatToStr(row)

Num(i) == NumberValue(IntNum(i))

\* new ReferenceExpr(token, []) and new RangeRefExpr(token, [p, q])
Ref(id) == ReferenceExpr(TokenNode("Reference", id, 0), << >>)

RangeOf(idp, idq) ==
  RangeRefExpr(TokenNode("Delimiter", << ":" >>, 0), << Ref(idp), Ref(idq) >>)

\* endpoints whose rows vary, and endpoints whose columns vary
RowEnds == { Id(col, row) : col \in { << "A" >>, << "B" >> }, row \in 1..MaxRow }

ColEnds ==
  { Id(col, row) : col \in { << "A" >>, << "B" >>, << "Z" >>, << "A", "A" >> },
                   row \in 1..2 }

Endpoints == RowEnds \cup ColEnds

\* calc.test.ts "Range selection with SUM", with further cells
NumberCtx ==
  Id(<< "A" >>, 1) :> Num(2) @@ Id(<< "A" >>, 2) :> Num(3)
    @@ Id(<< "B" >>, 4) :> Num(5) @@ Id(<< "B" >>, 6) :> Num(10)
    @@ Id(<< "A" >>, 9) :> Num(7) @@ Id(<< "A" >>, 10) :> Num(8)
    @@ Id(<< "Z" >>, 1) :> Num(4) @@ Id(<< "A", "A" >>, 1) :> Num(6)
    @@ Id(<< "A", "B" >>, 1) :> Num(9)

MixedCtx ==
  Id(<< "A" >>, 1) :> StringValue(<< "x" >>) @@ Id(<< "B" >>, 1) :> Num(0)
    @@ Id(<< "B" >>, 2) :> CollectionValue(<< Num(1) >>)
    @@ Id(<< "A" >>, 10) :> StringValue(<< >>)

RangeContexts == { EmptyCtx, NumberCtx, MixedCtx }

InitRange ==
  /\ pc = "parsed"
  /\ text = << >>
  /\ tree = NoTree
  /\ parser = Parser
  /\ expr \in { Ref(id) : id \in Endpoints }
                \cup { RangeOf(idp, idq) : idp \in Endpoints, idq \in Endpoints }
  /\ ctx \in RangeContexts
  /\ value = NoValue

NextRange == Evaluate

SpecRange == InitRange /\ [][NextRange]_vars

\* the n-th column name in spreadsheet order
RECURSIVE ColumnName(_)
ColumnName(n) ==
  IF n = 0 THEN << >>
  ELSE ColumnName((n - 1) \div 26) \o << alphabet[((n - 1) % 26) + 1] >>

Min(x, y) == IF x < y THEN x ELSE y

Max(x, y) == IF x < y THEN y ELSE x

\* the rectangle two endpoints bound, column by column, each column from
\* the smaller row number to the larger: the cell ids, and what they hold
RectIds(idp, idq) ==
  LET c0 == Min(ColumnNumber(ColumnOf(idp)), ColumnNumber(ColumnOf(idq)))
      c1 == Max(ColumnNumber(ColumnOf(idp)), ColumnNumber(ColumnOf(idq)))
      r0 == Min(DigitsVal(RowOf(idp)), DigitsVal(RowOf(idq)))
      r1 == Max(DigitsVal(RowOf(idp)), DigitsVal(RowOf(idq)))
      nr == r1 - r0 + 1
  IN [m \in 1..((c1 - c0 + 1) * nr) |->
        Id(ColumnName(c0 + ((m - 1) \div nr)), r0 + ((m - 1) % nr))]

Rect(idp, idq, c) ==
  LET ids == RectIds(idp, idq)
  IN CollectionValue([m \in DOMAIN ids |->
                        IF Has(c, ids[m]) THEN c[ids[m]] ELSE NullValue])

LeftId(node) == node.children[1].op.tokenContent

RightId(node) == node.children[2].op.tokenContent

\* both endpoints in columns A..B / in rows 1..2
NarrowColumns(node) ==
  /\ ColumnOf(LeftId(node)) \in { << "A" >>, << "B" >> }
  /\ ColumnOf(RightId(node)) \in { << "A" >>, << "B" >> }

LowRows(node) ==
  /\ DigitsVal(RowOf(LeftId(node))) \in 1..2
  /\ DigitsVal(RowOf(RightId(node))) \in 1..2

\* C3: a plain Reference whose id is absent from the context evaluates to
\* Number(NaN); every cell of an evaluated range that is absent from the
\* context contributes a Null entry, never NaN and never an Error
C3_MissingNaNVersusNull ==
  pc = "evaluated" =>
    /\ (expr.kind = "Reference" /\ ~ Has(ctx, expr.op.tokenContent)) =>
         value = NumberValue(NaN)
    /\ expr.kind = "RangeRef" =>
         /\ value.type = "collection"
         /\ \A i \in DOMAIN value.values :
              \/ value.values[i] = NullValue
              \/ \E id \in DOMAIN ctx : value.values[i] = ctx[id]
         /\ (NarrowColumns(expr) /\ LowRows(expr)) =>
              /\ Len(value.values) = Len(RectIds(LeftId(expr), RightId(expr)))
              /\ \A i \in DOMAIN value.values :
                   ~ Has(ctx, RectIds(LeftId(expr), RightId(expr))[i]) =>
                     value.values[i] = NullValue

C3_Witness ==
  /\ pc = "evaluated"
  /\ expr = RangeOf(Id(<< "A" >>, 1), Id(<< "B" >>, 2))
  /\ ctx = NumberCtx
  /\ value = CollectionValue(<< Num(2), Num(3), NullValue, NullValue >>)

\* C5: range evaluation compares the row numbers of the endpoints
\* numerically: each visited column holds exactly the rows
\* min(r1, r2) .. max(r1, r2), also across digit counts (A_9:A_10 is the two
\* cells A_9, A_10; A_2:A_10 is nine cells)
C5_RowsComparedNumerically ==
  (pc = "evaluated" /\ expr.kind = "RangeRef" /\ NarrowColumns(expr)) =>
    value = Rect(LeftId(expr), RightId(expr), ctx)

\* C6: range evaluation visits exactly the columns from minColumn up to and
\* including maxColumn in spreadsheet order, each once, a column's rows
\* before the next column: columns x rows entries (A_1:Z_1 yields 26
\* entries, A_1:AA_1 yields 27)
C6_ColumnsInSpreadsheetOrder ==
  (pc = "evaluated" /\ expr.kind = "RangeRef" /\ LowRows(expr)) =>
    value = Rect(LeftId(expr), RightId(expr), ctx)

\* C7: range evaluation is independent of the order of its endpoints:
\* p:q yields the same Collection, entry by entry, as q:p
C7_EndpointOrderIrrelevant ==
  (pc = "evaluated" /\ expr.kind = "RangeRef") =>
    value = evaluate(RangeOf(RightId(expr), LeftId(expr)), ctx)

C7_Witness ==
  /\ pc = "evaluated"
  /\ expr = RangeOf(Id(<< "B" >>, 2), Id(<< "A" >>, 1))
  /\ ctx = NumberCtx
  /\ value = CollectionValue(<< Num(2), Num(3), NullValue, NullValue >>)

(***************************************************************************)
(* SUM over a range: "SUM(p:q)" and "1 + SUM(p:q)" parsed and evaluated    *)
(***************************************************************************)
SumCall(idp, idq, plus) == [t |-> "sum", p |-> idp, q |-> idq, plus |-> plus]

SumText(tr) ==
  (IF tr.plus THEN << "1", " ", "+", " " >> ELSE << >>)
    \o << "S", "U", "M", "(" >> \o tr.p \o << ":" >> \o tr.q \o << ")" >>

\* contexts whose populated cells hold numbers
SumContexts ==
  { EmptyCtx, NumberCtx,
    Id(<< "A" >>, 2) :> Num(3) @@ Id(<< "A" >>, 3) :> Num(0)
      @@ Id(<< "B" >>, 1) :> Num(1) @@ Id(<< "B" >>, 10) :> Num(4) }

InitSum ==
  /\ pc = "start"
  /\ tree \in { SumCall(idp, idq, plus) :
                  idp \in RowEnds, idq \in RowEnds, plus \in BOOLEAN }
  /\ text = SumText(tree)
  /\ parser = Parser
  /\ expr = NoExpr
  /\ ctx \in SumContexts
  /\ value = NoValue

NextSum == Parse \/ Evaluate

SpecSum == InitSum /\ [][NextSum]_vars

\* the numeric sum of the populated cells among ids
RECURSIVE SumOfPopulated(_, _)
SumOfPopulated(ids, c) ==
  IF ids = << >> THEN Zero
  ELSE NumAdd(IF Has(c, Head(ids)) THEN c[Head(ids)].value ELSE Zero,
              SumOfPopulated(Tail(ids), c))

\* C4: for every range and every context whose populated cells of the
\* range hold numbers, SUM of the range is the numeric sum of the populated
\* cells, unpopulated cells contributing nothing wherever they occur
\* (1 + SUM(A_1:B_6) with A_1=2, A_2=3, B_4=5, B_6=10 is 21)
C4_SumOfPopulatedCells ==
  /\ pc \notin {"failed", "hung"}
  /\ pc = "evaluated" =>
       value = NumberValue(NumAdd(IF tree.plus THEN One ELSE Zero,
                                  SumOfPopulated(RectIds(tree.p, tree.q), ctx)))

(***************************************************************************)
(* Binary operators over context values: "l op r" parsed and evaluated     *)
(* with the references bound to values of every class                      *)
(***************************************************************************)
CellA1 == Id(<< "A" >>, 1)

CellA2 == Id(<< "A" >>, 2)

Operands == { CellA1, CellA2, << "1" >> }

BinaryOf(l, op, r) == [t |-> "bin", l |-> l, op |-> op, r |-> r]

BinaryText(tr) == tr.l \o << " ", tr.op, " " >> \o tr.r

\* what a context binds a cell to
CellValues ==
  { Num(5), Num(0), StringValue(<< "a" >>), NullValue,
    CollectionValue(<< Num(5) >>), CollectionValue(<< >>),
    CollectionValue(<< StringValue(<< "a" >>), Num(2) >>) }

BinaryContexts ==
  { CellA1 :> v : v \in CellValues }
    \cup { CellA1 :> v @@ CellA2 :> w : v \in CellValues, w \in CellValues }

InitBinary ==
  /\ pc = "start"
  /\ tree \in { BinaryOf(l, op, r) : l \in Operands, op \in ArithOps, r \in Operands }
  /\ text = BinaryText(tree)
  /\ parser = Parser
  /\ expr = NoExpr
  /\ ctx \in BinaryContexts
  /\ value = NoValue

NextBinary == Parse \/ Evaluate

SpecBinary == InitBinary /\ [][NextBinary]_vars

CollectionChild ==
  \E i \in 1..2 : evaluate(expr.children[i], ctx).type = "collection"

\* C9: a Binary node (+ - * / ^) with a child that evaluates to a Collection
\* value evaluates to a type error, never to a Number or String computed
\* from the collection's contents
C9_CollectionOperandRejected ==
  (pc = "evaluated" /\ expr.kind = "Binary" /\ CollectionChild)
    => value.type = "error"

(***************************************************************************)
(* Function argument lists: "SUM(a s a ...)" with "," and ":" separators   *)
(***************************************************************************)
MaxArgs == 3

CellB2 == Id(<< "B" >>, 2)

CellC3 == Id(<< "C" >>, 3)

BareRefs == { CellA1, CellA2, CellB2, CellC3 }

Arguments == BareRefs \cup { << "1" >>, CellA2 \o << "+", "1" >> }

Separators == { ",", ":" }

CallOf(args, seps) == [t |-> "call", args |-> args, seps |-> seps]

RECURSIVE ArgsText(_, _)
ArgsText(args, seps) ==
  IF Len(args) = 1 THEN Head(args)
  ELSE Head(args) \o << Head(seps) >> \o ArgsText(Tail(args), Tail(seps))

CallText(tr) == << "S", "U", "M", "(" >> \o ArgsText(tr.args, tr.seps) \o << ")" >>

InitArgs ==
  /\ pc = "start"
  /\ tree \in UNION { { CallOf(args, seps) :
                          args \in [1..n -> Arguments],
                          seps \in [1..(n - 1) -> Separators] } : n \in 2..MaxArgs }
  /\ text = CallText(tree)
  /\ parser = Parser
  /\ expr = NoExpr
  /\ ctx = EmptyCtx
  /\ value = NoValue

NextArgs == Parse \/ Evaluate

SpecArgs == InitArgs /\ [][NextArgs]_vars

\* a ":" whose preceding argument or whose following expression is not a
\* bare reference (the left side of a second ":" in a row is a range)
MisplacedColon ==
  \E i \in DOMAIN tree.seps :
    /\ tree.seps[i] = ":"
    /\ \/ tree.args[i] \notin BareRefs
       \/ tree.args[i + 1] \notin BareRefs
       \/ i > 1 /\ tree.seps[i - 1] = ":"

\* C10: in an argument list, a ":" with a side that is not a bare Reference
\* (SUM(1:A_2), SUM(A_1:A_2+1), SUM(A_1:B_2:C_3)) makes parse fail with the
\* invalid-range fault; parse never returns a tree with the ":" dropped
C10_MisplacedColonIsInvalidRange ==
  (pc # "start" /\ MisplacedColon)
    => (pc = "failed" /\ expr = Fault("invalid range"))

\* an argument as the text denotes it: a reference, a range of two
\* references, or another expression (named by its node kind)
RefForm(id) == [t |-> "ref", p |-> id, q |-> << >>]

RangeForm(idp, idq) == [t |-> "range", p |-> idp, q |-> idq]

OtherForm(kind) == [t |-> "other", p |-> << kind >>, q |-> << >>]

TextForm(arg) ==
  IF arg \in BareRefs THEN RefForm(arg)
  ELSE IF arg = << "1" >> THEN OtherForm("Number")
  ELSE OtherForm("Binary")

NodeForm(node) ==
  CASE node.kind = "Reference" -> RefForm(node.op.tokenContent)
    [] node.kind = "RangeRef" ->
         RangeForm(node.children[1].op.tokenContent,
                   node.children[2].op.tokenContent)
    [] OTHER -> OtherForm(node.kind)

\* the arguments the separators denote: "," starts a new argument, ":" makes
\* a range of the argument before it and the reference after it
RECURSIVE Denoted(_, _, _)
Denoted(done, args, seps) ==
  IF args = << >> THEN done
  ELSE Denoted(IF Head(seps) = ","
                 THEN Append(done, TextForm(Head(args)))
                 ELSE [done EXCEPT ![Len(done)] =
                         RangeForm(done[Len(done)].p, Head(args))],
               Tail(args), Tail(seps))

DenotedArguments ==
  Denoted(<< TextForm(Head(tree.args)) >>, Tail(tree.args), tree.seps)

\* C11: for every call whose ":" separators stand between two bare
\* references, the Function node's children are exactly the arguments the
\* separators denote, in textual order (SUM(A_1,A_2:B_2) has the children
\* [A_1, RangeRef(A_2,B_2)], SUM(A_1:A_2,B_2) has [RangeRef(A_1,A_2), B_2])
C11_ChildrenAreDenotedArguments ==
  (pc # "start" /\ ~ MisplacedColon) =>
    /\ pc \in {"parsed", "evaluated"}
    /\ expr.kind = "Function"
    /\ [i \in DOMAIN expr.children |-> NodeForm(expr.children[i])]
         = DenotedArguments

\* ---------------------------------------------------------------------
\* Texts with an opening parenthesis that is never closed
\* ---------------------------------------------------------------------

\* what stands before the unmatched parenthesis, the parenthesis included
Openers ==
  { << "(" >>, << "S", "U", "M", "(" >>, << "M", "A", "X", "(" >>,
    << "-", "(" >>, << "1", " ", "+", " ", "(" >>, << "(", "(" >>,
    << "(", "1", ")", " ", "*", " ", "(" >>,
    << "S", "U", "M", "(", "1", ",", "(" >> }

\* what stands between the unmatched parenthesis and the end of the input:
\* nothing, complete expressions, expressions cut short, argument lists,
\* and a balanced inner pair
Unclosed ==
  { << >>, << "1" >>, << "1", " ", "+" >>, << "1", " ", "+", " ", "2" >>,
    << "-" >>, << "-", "1" >>, << "2", " ", "*" >>, << " " >>,
    CellA1, CellA1 \o << "," >>, CellA1 \o << "," >> \o CellA2,
    CellA1 \o << ":" >> \o CellA2, CellA1 \o << ":" >>,
    << "(", "1", ")" >>, << "(", "1", ")", " ", "+" >>,
    << "1", " ", "+", " ", "(", "2", ")" >> }

OpenOf(opener, rest) == [t |-> "open", opener |-> opener, rest |-> rest]

OpenText(tr) == tr.opener \o tr.rest

InitParen ==
  /\ pc = "start"
  /\ tree \in { OpenOf(o, r) : o \in Openers, r \in Unclosed }
  /\ text = OpenText(tree)
  /\ parser = Parser
  /\ expr = NoExpr
  /\ ctx = EmptyCtx
  /\ value = NoValue

NextParen == Parse

SpecParen == InitParen /\ [][NextParen]_vars

\* C12: every text in which an opening parenthesis, of a grouping or of a
\* function call, has no matching closing parenthesis before the end of the
\* input makes parse fail with the unclosed-parenthesis fault
C12_UnmatchedOpenIsUnclosedFault ==
  pc # "start" => (pc = "failed" /\ expr = Fault(UnclosedParentheses))

\* ---------------------------------------------------------------------
\* Errors produced below a parent node
\* ---------------------------------------------------------------------

\* what is written around the operand -A_1: a Unary, Binary or Function
\* parent, directly or further up
Wrap(pre, post) == [t |-> "wrap", pre |-> pre, post |-> post]

Parents ==
  { Wrap(<< >>, << >>),
    Wrap(<< "-", "(" >>, << ")" >>),
    Wrap(<< "1", " ", "+", " " >>, << >>),
    Wrap(<< >>, << " ", "+", " ", "1" >>),
    Wrap(<< >>, << " ", "*", " ", "2" >>),
    Wrap(<< "2", " ", "^", " " >>, << >>),
    Wrap(<< "-", "(", "1", " ", "+", " " >>, << ")" >>),
    Wrap(<< "S", "U", "M", "(" >>, << ")" >>),
    Wrap(<< "S", "U", "M", "(", "1", "," >>, << ")" >>),
    Wrap(<< "M", "A", "X", "(" >>, << ",", "2", ")" >>),
    Wrap(<< "M", "I", "N", "(", "2", "," >>, << ")" >>),
    Wrap(<< "A", "V", "E", "R", "A", "G", "E", "(" >>, << ")" >>),
    Wrap(<< "1", " ", "+", " ", "M", "A", "X", "(" >>, << ",", "2", ")" >>),
    Wrap(<< "-", "S", "U", "M", "(" >>, << ")" >>),
    Wrap(<< "S", "U", "M", "(" >>, << ")", " ", "+", " ", "1" >>),
    Wrap(<< "S", "U", "M", "(", "-", "(" >>, << ")", ")" >>) }

WrapText(tr) == tr.pre \o << "-" >> \o CellA1 \o tr.post

InitError ==
  /\ pc = "start"
  /\ tree \in Parents
  /\ text = WrapText(tree)
  /\ parser = Parser
  /\ expr = NoExpr
  /\ ctx \in { CellA1 :> v : v \in CellValues } \cup { EmptyCtx }
  /\ value = NoValue

NextError == Parse \/ Evaluate

SpecError == InitError /\ [][NextError]_vars

\* the nodes of a tree
RECURSIVE Nodes(_)
Nodes(node) ==
  { node } \cup UNION { Nodes(node.children[i]) : i \in DOMAIN node.children }

ErrorChild(node) ==
  \E i \in DOMAIN node.children : evaluate(node.children[i], ctx).type = "error"

\* C13: whenever a child of a Binary, Unary or Function node evaluates to
\* an Error value, the node evaluates to an Error value, so that an Error
\* produced anywhere in the tree is the result at the root
C13_ErrorChildShortCircuits ==
  pc = "evaluated" =>
    \A node \in Nodes(expr) :
      (node.kind \in {"Binary", "Unary", "Function"} /\ ErrorChild(node))
        => evaluate(node, ctx).type = "error"

UnaryTypeError == ErrorValue("unary expression can only receive number")

\* the Unary nodes of the tree whose operand evaluates to a value
UnaryNodes == { node \in Nodes(expr) : node.kind = "Unary" }

TextualForm(v) ==
  CASE v.type = "number" -> NumToStr(v.value)
    [] v.type = "string" -> v.value.chars
    [] v.type = "null" -> << >>

Scalars == {"number", "string", "null"}

\* C15: for + with a String operand the result is the String made of the
\* textual form of the left operand followed by the textual form of the
\* right operand, for every scalar other operand, Number(0) included;
\* with no String operand the result is the Number sum
C15_PlusConcatenatesTextualForms ==
  (pc = "evaluated" /\ expr.kind = "Binary" /\ expr.op.tokenContent = << "+" >>) =>
    \E l \in { evaluate(expr.children[1], ctx) } :
      \E r \in { evaluate(expr.children[2], ctx) } :
        (l.type \in Scalars /\ r.type \in Scalars) =>
          IF l.type = "string" \/ r.type = "string"
            THEN value = StringValue(TextualForm(l) \o TextualForm(r))
            ELSE value = NumberValue(NumAdd(JsToNumber(getValue(l)),
                                            JsToNumber(getValue(r))))

\* ---------------------------------------------------------------------
\* The scanner on digit-initial texts with an exponent letter
\* ---------------------------------------------------------------------

\* const stream = lexer.scan(text)
Scan ==
  /\ pc = "start"
  /\ parser' = [parser EXCEPT !.tokenStream = scan(text), !.scanned = TRUE]
  /\ pc' = "scanned"
  /\ UNCHANGED <<text, tree, expr, ctx, value>>

\* stream.next(): value gathers what the calls returned, a call that throws
\* or does not return ends the run
NextToken ==
  /\ pc = "scanned"
  /\ \E r \in { next(parser.tokenStream) } :
       /\ parser' = [parser EXCEPT !.tokenStream = r.ts]
       /\ value' = Append(value, IF r.ok THEN r.tok ELSE Fault(r.fault))
       /\ pc' = IF r.ok
                  THEN (IF r.tok.tokenType = "End" THEN "ended" ELSE "scanned")
                  ELSE IF r.fault = Diverges THEN "hung" ELSE "failed"
  /\ UNCHANGED <<text, tree, expr, ctx>>

Mantissas == { << "1" >>, << "1", "2" >>, << "2", ".", "5" >> }

ExponentLetters == { "e", "E" }

\* exponents: digits, or a sign and digits
Exponents == { << "5" >>, << "1", "2" >>, << "-", "2" >>, << "+", "2" >> }

\* what may follow an exponent
AfterExponent == { << >>, << "+", "1" >>, << ")" >>, << "*", "3" >> }

\* what is no exponent: a letter, a delimiter, an operator, a sign without
\* digits, whitespace, a character of no token, the end of the input
NoExponents ==
  { << >>, << "x" >>, << "x", "1" >>, << ")" >>, << "," >>, << "*", "2" >>,
    << "+" >>, << "-" >>, << "+", "x" >>, << " " >>, << " ", "5" >>,
    << "e" >>, << "_", "1" >>, << "$" >> }

Scientific(mantissa, letter, exponent, rest) ==
  [t |-> "sci", mantissa |-> mantissa, letter |-> letter,
   exponent |-> exponent, rest |-> rest]

ScientificText(tr) == tr.mantissa \o << tr.letter >> \o tr.exponent \o tr.rest

InitLex ==
  /\ pc = "start"
  /\ tree \in { Scientific(m, l, x, r) :
                  m \in Mantissas, l \in ExponentLetters,
                  x \in Exponents, r \in AfterExponent }
             \cup { Scientific(m, l, << >>, r) :
                      m \in Mantissas, l \in ExponentLetters, r \in NoExponents }
  /\ text = ScientificText(tree)
  /\ parser = Parser
  /\ expr = NoExpr
  /\ ctx = EmptyCtx
  /\ value = << >>

NextLex == Scan \/ NextToken

SpecLex == InitLex /\ [][NextLex]_vars

\* the characters of the text the stream has not consumed
Unread(ts) ==
  IF ts.current = END_TOKEN THEN << >>
  ELSE (IF ts.current = NULL THEN << >> ELSE << ts.current >>)
         \o SubSeq(ts.content, ts.position + 1, Len(ts.content))

\* C16: the Number token of a digit-initial text includes the exponent part
\* if and only if the e or E is followed by digits or by a sign and digits;
\* otherwise the Number token ends before the e, which is left unconsumed
\* as the start of the next token
C16_ExponentIffValid ==
  Len(value) = 1 =>
    /\ "tokenType" \in DOMAIN value[1]
    /\ value[1].tokenType = "Number"
    /\ IF tree.exponent # << >>
         THEN /\ value[1].tokenContent
                   = ToNumber(tree.mantissa \o << "e" >> \o tree.exponent)
              /\ Unread(parser.tokenStream) = tree.rest
         ELSE /\ value[1].tokenContent = ToNumber(tree.mantissa)
              /\ Unread(parser.tokenStream) = << tree.letter >> \o tree.rest

\* the outcomes a call of next() may have: a token, the End token included,
\* or the invalid-token failure
Returned(outcome) ==
  \/ "tokenType" \in DOMAIN outcome
  \/ outcome = Fault(InvalidToken)

\* C17: every call of next() completes with a token, the End token or the
\* invalid-token failure, and repeated calls reach the End token or a
\* failure after finitely many calls (at most one per character and one
\* for the end); no text makes the scanner loop forever
C17_NextAlwaysReturns ==
  /\ pc # "hung"
  /\ \A i \in DOMAIN value : Returned(value[i])
  /\ Len(value) <= Len(text) + 1

\* ---------------------------------------------------------------------
\* Texts with tokens after a complete expression
\* ---------------------------------------------------------------------

\* complete expressions
Leading ==
  { << "1" >>, << "2" >>, CellA1, << "1", " ", "+", " ", "2" >>,
    << "(", "1", ")" >>, << "S", "U", "M", "(", "1", ")" >>,
    << "-", "1" >>, CellA1 \o << " ", "*", " ", "2" >> }

\* further tokens, none of which continues the expression before them
Trailing ==
  { << " ", "2" >>, << " ", ")" >>, << " " >> \o CellB2, << " ", "e" >>,
    << " ", "(" >>, << " ", "(", "2", ")" >>, << "," >>, << ":" >>,
    << ",", "2" >>, << " ", "S", "U", "M", "(", "1", ")" >>,
    << " ", "2", " ", "+", " ", "3" >>, << ")", ")" >> }

TrailOf(leading, trailing) ==
  [t |-> "trail", leading |-> leading, trailing |-> trailing]

TrailText(tr) == tr.leading \o tr.trailing

InitTrail ==
  /\ pc = "start"
  /\ tree \in { TrailOf(l, r) : l \in Leading, r \in Trailing }
  /\ text = TrailText(tree)
  /\ parser = Parser
  /\ expr = NoExpr
  /\ ctx = EmptyCtx
  /\ value = NoValue

NextTrail == Parse

SpecTrail == InitTrail /\ [][NextTrail]_vars

\* C18: a text with further tokens after a complete expression makes parse
\* fail; parse never returns the tree of the leading expression alone
C18_TrailingTokensRejected ==
  pc # "start" => pc = "failed"

\* ---------------------------------------------------------------------
\* Plain references
\* ---------------------------------------------------------------------

\* what a context binds an id to: value objects, and the plain numbers and
\* strings the contexts of calc.test.ts hold
BoundValues ==
  << Num(0), Num(5), NumberValue(NaN), StringValue(<< >>),
     StringValue(<< "a" >>), NullValue, CollectionValue(<< >>),
     JsNumber(Zero), JsNumber(IntNum(2)), JsNumber(NaN),
     JsString(<< >>), JsString(<< "2" >>), JsNull >>

RefIds == { CellA1, CellA2, CellB2, << "x" >> }

\* no binding, A_1 bound, or A_2 and x bound
InitRef ==
  /\ pc = "start"
  /\ tree \in { [t |-> "ref", id |-> id] : id \in RefIds }
  /\ text = tree.id
  /\ parser = Parser
  /\ expr = NoExpr
  /\ \/ ctx = EmptyCtx
     \/ \E i \in DOMAIN BoundValues : ctx = CellA1 :> BoundValues[i]
     \/ \E i \in DOMAIN BoundValues, j \in DOMAIN BoundValues :
          ctx = CellA2 :> BoundValues[i] @@ << "x" >> :> BoundValues[j]
  /\ value = NoValue

NextRef == Parse \/ Evaluate

SpecRef == InitRef /\ [][NextRef]_vars

\* C19: a plain Reference node evaluates to the value the context binds to
\* its id whenever the id is present, whatever the value is (the number 0,
\* the empty string and Null included), and to Number(NaN) only when the
\* id is absent
C19_PresentIdGivesItsValue ==
  (pc = "evaluated" /\ expr.kind = "Reference") =>
    IF tree.id \in DOMAIN ctx
      THEN value = ctx[tree.id]
      ELSE value = NumberValue(NaN)

\* ---------------------------------------------------------------------
\* One Parser instance used for several texts
\* ---------------------------------------------------------------------
MaxCalls == 3

\* texts that parse, texts that fail at their first token, part-way or at
\* their end, and texts that leave tokens unread
ReuseTexts ==
  { << "1" >>, << "1", " ", "+", " ", "2" >>, CellA1,
    << "S", "U", "M", "(" >> \o CellA1 \o << "," >> \o CellA2 \o << ")" >>,
    << "(", "1", " ", "+", " ", "2", ")", " ", "*", " ", "3" >>,
    << "-", "1" >>, << "1", " ", "2" >>, << "1", " ", ")" >>,
    << "(", "1", " ", "+", " ", "2" >>, << "(", "1", " ", "+" >>, << "(" >>,
    << ")" >>, << "$" >>, << "1", " ", "+", " ", "$" >>,
    << "S", "U", "M", " ", "1" >>, << "S", "U", "M", "(" >> \o CellA1,
    << >>, << "1", " ", "+" >>, << "2", " ", "*", " ", "(", "$" >>,
    << "1", "e" >> }

\* the next parser.parse(text) on the parser an earlier call has used; tree
\* counts the earlier calls and keeps how the last one ended
ParseAgain ==
  /\ pc \in {"parsed", "failed"}
  /\ tree.n < MaxCalls
  /\ \E content \in ReuseTexts :
       \E r \in { parse(parser, content) } :
         /\ text' = content
         /\ parser' = r.p
         /\ expr' = IF r.ok THEN r.node ELSE Fault(r.fault)
         /\ pc' = IF r.ok THEN "parsed"
                  ELSE IF r.fault = Diverges THEN "hung" ELSE "failed"
  /\ tree' = [tree EXCEPT !.n = tree.n + 1, !.before = pc]
  /\ UNCHANGED <<ctx, value>>

InitReuse ==
  /\ pc = "start"
  /\ tree = [t |-> "calls", n |-> 0, before |-> "none"]
  /\ text \in ReuseTexts
  /\ parser = Parser
  /\ expr = NoExpr
  /\ ctx = EmptyCtx
  /\ value = NoValue

NextReuse == Parse \/ ParseAgain

SpecReuse == InitReuse /\ [][NextReuse]_vars

\* C20: after any sequence of earlier parse calls on the same Parser,
\* failed ones included, parse(text) returns the tree or raises the failure
\* a fresh Parser gives for that text
C20_ParseDependsOnTextOnly ==
  pc # "start" =>
    \E fresh \in { parse(Parser, text) } :
      /\ expr = (IF fresh.ok THEN fresh.node ELSE Fault(fresh.fault))
      /\ pc = (IF fresh.ok THEN "parsed"
               ELSE IF fresh.fault = Diverges THEN "hung" ELSE "failed")

\* a text has been parsed into a tree by a parser whose call before failed
C20_Witness ==
  /\ tree.n >= 2
  /\ tree.before = "failed"
  /\ pc = "parsed"
  /\ expr.kind = "Function"

====
